---- MODULE Spec2Model ----
(***************************************************************************)
(* CNN accelerator driver (software/src/cnn_accelerator.c) as a state      *)
(* machine: the handle, the memory-mapped register file, the accelerator   *)
(* behind it, one main control flow calling the driver, and the interrupt  *)
(* handler that may run between any two steps of that flow.                *)
(***************************************************************************)
EXTENDS Integers, Naturals, Sequences, FiniteSets, TLC

(* ------------------------------------------------------------------ *)
(* Bounds of the model                                                 *)
(* ------------------------------------------------------------------ *)
MaxTimeout == 2          \* largest timeout_ms a caller passes

(* ------------------------------------------------------------------ *)
(* Register map and bits (cnn_accelerator.h)                           *)
(* ------------------------------------------------------------------ *)
CNN_REG_CONTROL     == 0
CNN_REG_STATUS      == 4
CNN_REG_CONFIG      == 8
CNN_REG_INPUT_DIM   == 12
CNN_REG_WEIGHT_ADDR == 16
CNN_REG_BIAS_ADDR   == 20
CNN_REG_INPUT_ADDR  == 24
CNN_REG_OUTPUT_ADDR == 28
CNN_REG_IRQ_ENABLE  == 32
CNN_REG_IRQ_STATUS  == 36
CNN_REG_PERF_CYCLES == 40
CNN_REG_PERF_OPS    == 44

CNN_CTRL_START == 1
CNN_CTRL_STOP  == 2
CNN_CTRL_RESET == 4

CNN_STAT_BUSY       == 1
CNN_STAT_DONE       == 2
CNN_STAT_ERROR_MASK == 240

CNN_CFG_LAYER_EN_MASK == 255
CNN_CFG_ACT_MASK      == 1792
CNN_CFG_ACT_SHIFT     == 8
CNN_CFG_POOL_TYPE     == 2048

CNN_IRQ_DONE  == 1
CNN_IRQ_ERROR == 2

CNN_ACT_RELU  == 1
CNN_ACT_SWISH == 6
CNN_POOL_MAX  == 0
CNN_POOL_AVG  == 1

CNN_MAX_CLASSES == 100

WEIGHT_MEM_ADDR    == 268435456     \* 0x10000000
BIAS_MEM_ADDR      == 402653184     \* 0x18000000
INPUT_FRAME_ADDR   == 536870912     \* 0x20000000
OUTPUT_RESULT_ADDR == 671088640     \* 0x28000000
ALL_ONES           == -1            \* 0xFFFFFFFF
INT16_MAX          == 32767
INT16_MIN          == -32768
Q8_8_SCALE         == 256
POLL_INTERVAL      == 1             \* poll_interval, in ms
TOP_RESULTS        == 5             \* cap on num_results in CNN_GetResult

XST_SUCCESS == "XST_SUCCESS"
XST_FAILURE == "XST_FAILURE"
NULL        == "NULL"
VOID        == "void"

(* ------------------------------------------------------------------ *)
(* Bitwise operators of C on 32-bit words.  A word is kept as the       *)
(* two's-complement integer with the same bits, so 0xFFFFFFFF is -1;    *)
(* \div 2 is then the arithmetic shift and % 2 the lowest bit.          *)
(* ------------------------------------------------------------------ *)
RECURSIVE BitAnd(_, _)
BitAnd(a, b) ==
    IF a = 0 \/ b = 0 THEN 0
    ELSE IF a = -1 THEN b
    ELSE IF b = -1 THEN a
    ELSE (a % 2) * (b % 2) + 2 * BitAnd(a \div 2, b \div 2)

RECURSIVE BitOr(_, _)
BitOr(a, b) ==
    IF a = 0 THEN b
    ELSE IF b = 0 THEN a
    ELSE IF a = -1 \/ b = -1 THEN -1
    ELSE (IF a % 2 = 1 \/ b % 2 = 1 THEN 1 ELSE 0) + 2 * BitOr(a \div 2, b \div 2)

\* a & ~b
BitClear(a, b) == a - BitAnd(a, b)

RECURSIVE Pow2(_)
Pow2(n) == IF n = 0 THEN 1 ELSE 2 * Pow2(n - 1)

\* a << n; the driver shifts only values below 2^8 by at most 16 bits.
Shl32(a, n) == a * Pow2(n)

Min(a, b) == IF a < b THEN a ELSE b


(* ------------------------------------------------------------------ *)
(* Input domains of the calls                                          *)
(* ------------------------------------------------------------------ *)
Handles     == {"cnn", NULL}
FrameAddrs  == {INPUT_FRAME_ADDR + 1048576}
Timeouts    == {0, MaxTimeout}
FaultCodes  == {9}
LoadInputs  == {<<"data", 32>>, <<NULL, 32>>, <<"data", 0>>}
\* elapsed is only ever compared with timeout_ms, and only when that is
\* positive: past this value its growth changes nothing.
ElapsedCap(t) == IF t = 0 THEN POLL_INTERVAL ELSE t + POLL_INTERVAL
\* The status reads of a wait are counted up to one past twice the
\* iterations a positive timeout allows.
ReadsCap(t) == IF t = 0 THEN 1 ELSE 2 * (t + 1) + 1

\* Configurations a caller passes: dimensions at and beyond both ends of
\* 1..224, with two settings of the remaining fields; num_classes is a
\* uint8_t that CNN_Configure stores as passed, here below TOP_RESULTS and
\* above CNN_MAX_CLASSES.
InvalidDims == {<<0, 224>>, <<224, 0>>, <<225, 1>>, <<1, 225>>}
MkConfig(dim, nc, act, pool) ==
    [input_width |-> dim[1], input_height |-> dim[2], input_channels |-> 3,
     num_classes |-> nc, layer_enable |-> 255, activation |-> act, pool_type |-> pool]
ConfigInputs ==
    {MkConfig(d, 3, CNN_ACT_RELU, CNN_POOL_MAX) : d \in {<<1, 224>>} \cup InvalidDims}
    \cup {[MkConfig(<<224, 1>>, CNN_MAX_CLASSES + 1, CNN_ACT_SWISH, CNN_POOL_AVG)
               EXCEPT !.layer_enable = 15]}

\* (handle, config pointer, config) of the calls of CNN_Configure
ConfigureInputs ==
    {<<"cnn", "config", c>> : c \in ConfigInputs}
    \cup {<<NULL, "config", MkConfig(<<1, 224>>, 3, CNN_ACT_RELU, CNN_POOL_MAX)>>,
          <<"cnn", NULL, MkConfig(<<1, 224>>, 3, CNN_ACT_RELU, CNN_POOL_MAX)>>}

\* Content the accelerator leaves in the output region (Q8.8 logits).
OutLen       == 10
ZeroLogits   == [i \in 0..(OutLen - 1) |-> 0]
LogitsOut    == [i \in 0..(OutLen - 1) |-> IF i = 1 THEN 512 ELSE IF i \in {2, 4} THEN 256 ELSE 0]
LogitsAlt    == [i \in 0..(OutLen - 1) |-> IF i = 3 THEN 768 ELSE IF i \in {0, 2} THEN 256 ELSE 0]
\* The logits of an inference depend on the layer configuration it ran with.
HwOutput(r)  == IF r[CNN_REG_CONFIG] = 0 THEN LogitsOut ELSE LogitsAlt

(* ------------------------------------------------------------------ *)
(* State                                                               *)
(* ------------------------------------------------------------------ *)
VARIABLES
    cnn,        \* CnnAccelerator_t: the handle
    regs,       \* the writable registers of the accelerator
    hw,         \* the accelerator behind the registers
    outbuf,     \* device memory at output_result_addr
    result,     \* the caller's InferenceResult_t
    pc,         \* position of the main control flow
    lastOp,     \* the driver call in progress or last returned
    arg,        \* its arguments
    ret,        \* its return value
    log,        \* bus, cache and flag accesses made by that call, in order
    status,     \* the caller's CnnStatus_t
    w           \* locals and history of CNN_WaitForCompletion

vars == <<cnn, regs, hw, outbuf, result, pc, lastOp, arg, ret, log, status, w>>

WritableRegs == {CNN_REG_CONTROL, CNN_REG_CONFIG, CNN_REG_INPUT_DIM,
                 CNN_REG_WEIGHT_ADDR, CNN_REG_BIAS_ADDR, CNN_REG_INPUT_ADDR,
                 CNN_REG_OUTPUT_ADDR, CNN_REG_IRQ_ENABLE}

\* Static storage: the handle is zero before CNN_Init (main.c: global cnn).
ZeroConfig ==
    [input_width |-> 0, input_height |-> 0, input_channels |-> 0,
     num_classes |-> 0, layer_enable |-> 0, activation |-> 0, pool_type |-> 0]

ZeroHandle ==
    [config |-> ZeroConfig, weight_mem_addr |-> 0, bias_mem_addr |-> 0,
     input_frame_addr |-> 0, output_result_addr |-> 0, inference_done |-> 0]

(* ------------------------------------------------------------------ *)
(* The accelerator (register semantics of spec section 6)              *)
(* ------------------------------------------------------------------ *)
HwIdleState(present) ==
    [present |-> present, busy |-> 0, done |-> 0, err |-> 0, irq |-> 0,
     cycles |-> 0, operations |-> 0, job |-> "none", overrun |-> FALSE]

\* Value of the status register: busy bit 0, done bit 1, error nibble bits 4-7.
StatusWord(h) == h.busy * CNN_STAT_BUSY + h.done * CNN_STAT_DONE + h.err * 16

\* Reaction of the accelerator to a write of the control register.
HwControl(h, val) ==
    IF BitAnd(val, CNN_CTRL_RESET) # 0
    THEN [h EXCEPT !.busy = 0, !.done = 0, !.err = 0, !.job = "none"]
    ELSE IF BitAnd(val, CNN_CTRL_START) # 0
    THEN IF h.busy = 1
         THEN [h EXCEPT !.overrun = TRUE]
         ELSE [h EXCEPT !.busy = 1, !.done = 0, !.err = 0, !.job = "running",
                        !.cycles = 1200, !.operations = 3400]
    ELSE h

\* m is the machine seen by a driver call: handle, registers, accelerator,
\* caller's result and the access log.
Xil_Out32(m, reg, val) ==
    LET logged == [m EXCEPT !.log = Append(@, <<"wr", reg, val>>)]
    IN  IF ~m.hw.present THEN logged
        ELSE IF reg = CNN_REG_CONTROL
        THEN [logged EXCEPT !.regs[reg] = val, !.hw = HwControl(@, val)]
        ELSE IF reg = CNN_REG_IRQ_STATUS
        THEN [logged EXCEPT !.hw.irq = BitClear(@, val)]
        ELSE IF reg \in WritableRegs
        THEN [logged EXCEPT !.regs[reg] = val]
        ELSE logged

Xil_In32(m, reg) ==
    IF ~m.hw.present THEN ALL_ONES
    ELSE IF reg = CNN_REG_STATUS THEN StatusWord(m.hw)
    ELSE IF reg = CNN_REG_IRQ_STATUS THEN m.hw.irq
    ELSE IF reg = CNN_REG_PERF_CYCLES THEN m.hw.cycles
    ELSE IF reg = CNN_REG_PERF_OPS THEN m.hw.operations
    ELSE m.regs[reg]

\* CNN_READ_REG / CNN_WRITE_REG and the other primitives, with their log entry.
CNN_READ_REG(m, reg)  == [m EXCEPT !.log = Append(@, <<"rd", reg, Xil_In32(m, reg)>>)]
CNN_WRITE_REG(m, reg, val) == Xil_Out32(m, reg, val)
Xil_DCacheFlushRange(m, addr, len) ==
    [m EXCEPT !.log = Append(@, <<"flush", addr, len>>)]
Xil_DCacheInvalidateRange(m, addr, len) ==
    [m EXCEPT !.log = Append(@, <<"inval", addr, len>>)]
memcpy(m, dst, len) == [m EXCEPT !.log = Append(@, <<"memcpy", dst, len>>)]
usleep(m, us)       == [m EXCEPT !.log = Append(@, <<"usleep", us, 0>>)]
SetInferenceDone(m, v) ==
    [m EXCEPT !.cnn.inference_done = v, !.log = Append(@, <<"done", v, 0>>)]

(* ------------------------------------------------------------------ *)
(* Post-processing.  A float is kept as a fraction <<n, d>>, d > 0;     *)
(* Q8.8 decoding is exact in binary32, expf is tabulated to three digits.*)
(* ------------------------------------------------------------------ *)
Num(f) == f[1]
Den(f) == f[2]
FGreater(a, b) == Num(a) * Den(b) > Num(b) * Den(a)
FSub(a, b)     == <<Num(a) * Den(b) - Num(b) * Den(a), Den(a) * Den(b)>>

\* Variant: the quotient is scaled by one bit less.
CNN_FixedToFloat_HalfScale(value) == <<value, Q8_8_SCALE \div 2>>

CNN_FixedToFloat(value) == <<value, Q8_8_SCALE>>

\* C conversion float -> integer: truncation toward zero.
TruncDiv(n, d) == IF n >= 0 THEN n \div d ELSE -((-n) \div d)

\* Variant: the clamp to the upper end stops one short of INT16_MAX.
CNN_FloatToFixed_ClampsLow(value) ==
    LET scaled  == <<Num(value) * Q8_8_SCALE, Den(value)>>
        clampHi == IF FGreater(scaled, <<INT16_MAX - 1, 1>>)
                   THEN <<INT16_MAX - 1, 1>> ELSE scaled
        clamped == IF FGreater(<<INT16_MIN, 1>>, clampHi) THEN <<INT16_MIN, 1>> ELSE clampHi
    IN  TruncDiv(Num(clamped), Den(clamped))

CNN_FloatToFixed(value) ==
    LET scaled  == <<Num(value) * Q8_8_SCALE, Den(value)>>
        clampHi == IF FGreater(scaled, <<INT16_MAX, 1>>) THEN <<INT16_MAX, 1>> ELSE scaled
        clamped == IF FGreater(<<INT16_MIN, 1>>, clampHi) THEN <<INT16_MIN, 1>> ELSE clampHi
    IN  TruncDiv(Num(clamped), Den(clamped))

\* expf(-j) * 10^3 for j = 0..6, rounded.
ExpTable == <<1000, 368, 135, 50, 18, 7, 2>>
ExpScale == ExpTable[1]

\* expf on the arguments softmax produces here: x = -j, j a small natural.
expf(x) ==
    LET j == (-Num(x)) \div Den(x)
    IN  <<IF j + 1 <= Len(ExpTable) THEN ExpTable[j + 1] ELSE 0, ExpScale>>

\* The loops over an array section [lo, hi) below run their iterations in
\* index order: those of [lo, mid), then those of [mid, hi) on what the
\* first ones left (CHOOSE over the one value the second run yields on the
\* one value of the first).

\* for (i = 1; i < size; i++) if (val > max_val) max_val = val;
RECURSIVE SoftmaxMax(_, _, _, _)
SoftmaxMax(input, lo, hi, max_val) ==
    IF lo >= hi THEN max_val
    ELSE IF hi = lo + 1
    THEN LET val == CNN_FixedToFloat(input[lo])
         IN  IF FGreater(val, max_val) THEN val ELSE max_val
    ELSE LET mid == (lo + hi) \div 2
         IN  CHOOSE r \in {SoftmaxMax(input, mid, hi, first) :
                            first \in {SoftmaxMax(input, lo, mid, max_val)}} : TRUE

\* for (i = 0; i < size; i++) sum += output[i];
RECURSIVE SoftmaxSum(_, _, _, _)
SoftmaxSum(e, lo, hi, sum) ==
    IF lo >= hi THEN sum
    ELSE IF hi = lo + 1 THEN sum + Num(e[lo])
    ELSE LET mid == (lo + hi) \div 2
         IN  CHOOSE r \in {SoftmaxSum(e, mid, hi, first) :
                            first \in {SoftmaxSum(e, lo, mid, sum)}} : TRUE

\* output[i] = expf(val_i - max) / sum, as a fraction over the common sum.
\* Variant: the value subtracted is the largest Q8.8 value, not the
\* largest logit.
CNN_Softmax_FixedMax(input, size) ==
    LET max_val == CNN_FixedToFloat(INT16_MAX)
        e == [i \in 0..(size - 1) |->
                 expf(FSub(CNN_FixedToFloat(input[i]), max_val))]
        sum == SoftmaxSum(e, 0, size, 0)
    IN  [i \in 0..(size - 1) |-> <<Num(e[i]), sum>>]

CNN_Softmax(input, size) ==
    CHOOSE r \in
        {LET e == [i \in 0..(size - 1) |->
                      expf(FSub(CNN_FixedToFloat(input[i]), max_val))]
         IN  CHOOSE q \in {[i \in 0..(size - 1) |-> <<Num(e[i]), sum>>] :
                            sum \in {SoftmaxSum(e, 0, size, 0)}} : TRUE
         : max_val \in {SoftmaxMax(input, 1, size, CNN_FixedToFloat(input[0]))}} : TRUE

\* Inner loop of CNN_GetTopK: first index with the strictly largest probs.
\* best is <<max_prob, max_idx>>.
RECURSIVE TopKScan(_, _, _, _, _)
TopKScan(probs, selected, lo, hi, best) ==
    IF lo >= hi THEN best
    ELSE IF hi = lo + 1
    THEN IF lo \notin selected /\ FGreater(probs[lo], best[1])
         THEN <<probs[lo], lo>> ELSE best
    ELSE LET mid == (lo + hi) \div 2
         IN  CHOOSE r \in {TopKScan(probs, selected, mid, hi, first) :
                            first \in {TopKScan(probs, selected, lo, mid, best)}} : TRUE

RECURSIVE TopKRound(_, _, _, _, _, _)
TopKRound(probs, num_classes, top_k, k, selected, results) ==
    IF k >= top_k THEN results
    ELSE LET best == TopKScan(probs, selected, 0, num_classes, <<<<-1, 1>>, -1>>)
         IN  IF best[2] >= 0
             THEN TopKRound(probs, num_classes, top_k, k + 1,
                            selected \cup {best[2]},
                            [results EXCEPT ![k] = [class_id |-> best[2],
                                                    confidence |-> best[1]]])
             ELSE TopKRound(probs, num_classes, top_k, k + 1, selected, results)

\* Variant: the positions that no round fills are zeroed.
CNN_GetTopK_Pads(probs, num_classes, top_k, results) ==
    LET filled == TopKRound(probs, num_classes, top_k, 0, {}, results)
    IN  [k \in DOMAIN filled |->
            IF k >= num_classes /\ k < top_k
            THEN [class_id |-> 0, confidence |-> <<0, 1>>] ELSE filled[k]]

CNN_GetTopK(probs, num_classes, top_k, results) ==
    TopKRound(probs, num_classes, top_k, 0, {}, results)

\* What the caller's result structure holds before any CNN_GetResult.
NoEntry    == [class_id |-> -1, confidence |-> <<0, 1>>]
ZeroResult == [num_results |-> 0,
               classifications |-> [k \in 0..(TOP_RESULTS - 1) |-> NoEntry]]
UsedResult == [num_results |-> 2,
               classifications |-> [k \in 0..(TOP_RESULTS - 1) |->
                   IF k < 2 THEN [class_id |-> 7 - k, confidence |-> <<1, 2>>]
                   ELSE NoEntry]]
ResultInputs == {UsedResult}

ZeroStatus == [busy |-> 0, done |-> 0, error_code |-> 0, cycles |-> 0, operations |-> 0]

(* ------------------------------------------------------------------ *)
(* Driver functions that run in one step of the main control flow.     *)
(* Each takes the machine m and yields the machine after the call and  *)
(* the value returned.                                                 *)
(* ------------------------------------------------------------------ *)
Cur     == [cnn |-> cnn, regs |-> regs, hw |-> hw, result |-> result,
            status |-> status, log |-> log]
\* A call starts with an empty log; the caller's out-structures are per call.
AtEntry == [Cur EXCEPT !.log = <<>>, !.status = ZeroStatus, !.result = ZeroResult]
Out(m, r) == [m |-> m, ret |-> r]

\* Variant: the pending interrupts are cleared while reset is still asserted.
CNN_Reset_ClearsEarly(m, h) ==
    IF h = NULL THEN Out(m, VOID)
    ELSE LET m1 == CNN_WRITE_REG(m, CNN_REG_CONTROL, CNN_CTRL_RESET)
             m2 == usleep(m1, 10)
             m3 == CNN_WRITE_REG(m2, CNN_REG_IRQ_STATUS, ALL_ONES)
             m4 == CNN_WRITE_REG(m3, CNN_REG_CONTROL, 0)
         IN  Out(SetInferenceDone(m4, 0), VOID)

CNN_Reset(m, h) ==
    IF h = NULL THEN Out(m, VOID)
    ELSE LET m1 == CNN_WRITE_REG(m, CNN_REG_CONTROL, CNN_CTRL_RESET)
             m2 == usleep(m1, 10)
             m3 == CNN_WRITE_REG(m2, CNN_REG_CONTROL, 0)
             m4 == CNN_WRITE_REG(m3, CNN_REG_IRQ_STATUS, ALL_ONES)
         IN  Out(SetInferenceDone(m4, 0), VOID)

\* Variant: an all-ones status is read a second time before giving up.
CNN_Init_Retries(m, h) ==
    IF h = NULL THEN Out(m, XST_FAILURE)
    ELSE LET m1 == [m EXCEPT !.cnn.weight_mem_addr    = WEIGHT_MEM_ADDR,
                             !.cnn.bias_mem_addr      = BIAS_MEM_ADDR,
                             !.cnn.input_frame_addr   = INPUT_FRAME_ADDR,
                             !.cnn.output_result_addr = OUTPUT_RESULT_ADDR,
                             !.cnn.config =
                                 [input_width |-> 128, input_height |-> 128,
                                  input_channels |-> 3, num_classes |-> 10,
                                  layer_enable |-> 255,
                                  activation |-> CNN_ACT_RELU,
                                  pool_type |-> CNN_POOL_MAX]]
             m2 == SetInferenceDone(m1, 0)
             m3 == CNN_Reset(m2, h).m
             m4 == CNN_READ_REG(m3, CNN_REG_STATUS)
         IN  IF Xil_In32(m3, CNN_REG_STATUS) = ALL_ONES
             THEN Out(CNN_READ_REG(m4, CNN_REG_STATUS), XST_FAILURE)
             ELSE Out(m4, XST_SUCCESS)

CNN_Init(m, h) ==
    IF h = NULL THEN Out(m, XST_FAILURE)
    ELSE LET m1 == [m EXCEPT !.cnn.weight_mem_addr    = WEIGHT_MEM_ADDR,
                             !.cnn.bias_mem_addr      = BIAS_MEM_ADDR,
                             !.cnn.input_frame_addr   = INPUT_FRAME_ADDR,
                             !.cnn.output_result_addr = OUTPUT_RESULT_ADDR,
                             !.cnn.config =
                                 [input_width |-> 128, input_height |-> 128,
                                  input_channels |-> 3, num_classes |-> 10,
                                  layer_enable |-> 255,
                                  activation |-> CNN_ACT_RELU,
                                  pool_type |-> CNN_POOL_MAX]]
             m2 == SetInferenceDone(m1, 0)
             m3 == CNN_Reset(m2, h).m
             m4 == CNN_READ_REG(m3, CNN_REG_STATUS)
         IN  IF Xil_In32(m3, CNN_REG_STATUS) = ALL_ONES
             THEN Out(m4, XST_FAILURE)
             ELSE Out(m4, XST_SUCCESS)

\* Variant: the upper limit is exclusive, and the config is stored first.
CNN_Configure_OffByOne(m, h, cfgp, config) ==
    IF h = NULL \/ cfgp = NULL THEN Out(m, XST_FAILURE)
    ELSE IF config.input_width = 0 \/ config.input_height = 0
            \/ config.input_width >= 224 \/ config.input_height >= 224
    THEN Out([m EXCEPT !.cnn.config = config], XST_FAILURE)
    ELSE Out([m EXCEPT !.cnn.config = config], XST_SUCCESS)

\* Variant: width and height change places in the dimension register.
CNN_Configure_SwapDim(m, h, cfgp, config) ==
    IF h = NULL \/ cfgp = NULL THEN Out(m, XST_FAILURE)
    ELSE IF config.input_width = 0 \/ config.input_height = 0
            \/ config.input_width > 224 \/ config.input_height > 224
    THEN Out(m, XST_FAILURE)
    ELSE LET m1 == [m EXCEPT !.cnn.config = config]
             cfg_reg ==
                 BitOr(BitOr(BitAnd(config.layer_enable, CNN_CFG_LAYER_EN_MASK),
                             BitAnd(Shl32(config.activation, CNN_CFG_ACT_SHIFT),
                                    CNN_CFG_ACT_MASK)),
                       IF config.pool_type = CNN_POOL_AVG
                       THEN CNN_CFG_POOL_TYPE ELSE 0)
             m2 == CNN_WRITE_REG(m1, CNN_REG_CONFIG, cfg_reg)
             dim_reg == BitOr(Shl32(config.input_width, 16), config.input_height)
             m3 == CNN_WRITE_REG(m2, CNN_REG_INPUT_DIM, dim_reg)
             m4 == CNN_WRITE_REG(m3, CNN_REG_WEIGHT_ADDR, m.cnn.weight_mem_addr)
             m5 == CNN_WRITE_REG(m4, CNN_REG_BIAS_ADDR, m.cnn.bias_mem_addr)
             m6 == CNN_WRITE_REG(m5, CNN_REG_INPUT_ADDR, m.cnn.input_frame_addr)
             m7 == CNN_WRITE_REG(m6, CNN_REG_OUTPUT_ADDR, m.cnn.output_result_addr)
         IN  Out(m7, XST_SUCCESS)

CNN_Configure(m, h, cfgp, config) ==
    IF h = NULL \/ cfgp = NULL THEN Out(m, XST_FAILURE)
    ELSE IF config.input_width = 0 \/ config.input_height = 0
            \/ config.input_width > 224 \/ config.input_height > 224
    THEN Out(m, XST_FAILURE)
    ELSE LET m1 == [m EXCEPT !.cnn.config = config]
             cfg_reg ==
                 BitOr(BitOr(BitAnd(config.layer_enable, CNN_CFG_LAYER_EN_MASK),
                             BitAnd(Shl32(config.activation, CNN_CFG_ACT_SHIFT),
                                    CNN_CFG_ACT_MASK)),
                       IF config.pool_type = CNN_POOL_AVG
                       THEN CNN_CFG_POOL_TYPE ELSE 0)
             m2 == CNN_WRITE_REG(m1, CNN_REG_CONFIG, cfg_reg)
             dim_reg == BitOr(Shl32(config.input_height, 16), config.input_width)
             m3 == CNN_WRITE_REG(m2, CNN_REG_INPUT_DIM, dim_reg)
             m4 == CNN_WRITE_REG(m3, CNN_REG_WEIGHT_ADDR, m.cnn.weight_mem_addr)
             m5 == CNN_WRITE_REG(m4, CNN_REG_BIAS_ADDR, m.cnn.bias_mem_addr)
             m6 == CNN_WRITE_REG(m5, CNN_REG_INPUT_ADDR, m.cnn.input_frame_addr)
             m7 == CNN_WRITE_REG(m6, CNN_REG_OUTPUT_ADDR, m.cnn.output_result_addr)
         IN  Out(m7, XST_SUCCESS)

CNN_LoadWeights(m, h, weights, size) ==
    IF h = NULL \/ weights = NULL \/ size = 0 THEN Out(m, XST_FAILURE)
    ELSE LET m1 == memcpy(m, m.cnn.weight_mem_addr, size)
             m2 == Xil_DCacheFlushRange(m1, m.cnn.weight_mem_addr, size)
             m3 == CNN_WRITE_REG(m2, CNN_REG_WEIGHT_ADDR, m.cnn.weight_mem_addr)
         IN  Out(m3, XST_SUCCESS)

\* Variant: the biases' address goes to the weights' address register.
CNN_LoadBiases_WrongReg(m, h, biases, size) ==
    IF h = NULL \/ biases = NULL \/ size = 0 THEN Out(m, XST_FAILURE)
    ELSE LET m1 == memcpy(m, m.cnn.bias_mem_addr, size)
             m2 == Xil_DCacheFlushRange(m1, m.cnn.bias_mem_addr, size)
             m3 == CNN_WRITE_REG(m2, CNN_REG_WEIGHT_ADDR, m.cnn.bias_mem_addr)
         IN  Out(m3, XST_SUCCESS)

CNN_LoadBiases(m, h, biases, size) ==
    IF h = NULL \/ biases = NULL \/ size = 0 THEN Out(m, XST_FAILURE)
    ELSE LET m1 == memcpy(m, m.cnn.bias_mem_addr, size)
             m2 == Xil_DCacheFlushRange(m1, m.cnn.bias_mem_addr, size)
             m3 == CNN_WRITE_REG(m2, CNN_REG_BIAS_ADDR, m.cnn.bias_mem_addr)
         IN  Out(m3, XST_SUCCESS)

\* the int returned is written "1" or "0"
CNN_IsComplete(m, h) ==
    IF h = NULL THEN Out(m, "0")
    ELSE IF m.cnn.inference_done # 0 THEN Out(m, "1")
    ELSE LET m1 == CNN_READ_REG(m, CNN_REG_STATUS)
         IN  IF BitAnd(Xil_In32(m, CNN_REG_STATUS), CNN_STAT_DONE) # 0
             THEN Out(SetInferenceDone(m1, 1), "1")
             ELSE Out(m1, "0")

\* Variant: num_results is cleared before the completion check.
CNN_GetResult_ClearsFirst(m, h, resp, raw) ==
    IF h = NULL \/ resp = NULL THEN Out(m, XST_FAILURE)
    ELSE Out([m EXCEPT !.result.num_results = 0], XST_FAILURE)

\* raw is the content of device memory at output_result_addr.
CNN_GetResult(m, h, resp, raw) ==
    IF h = NULL \/ resp = NULL THEN Out(m, XST_FAILURE)
    ELSE IF m.cnn.inference_done = 0 THEN Out(m, XST_FAILURE)
    ELSE LET num_classes == m.cnn.config.num_classes
             output_size == num_classes * 2
             m1 == Xil_DCacheInvalidateRange(m, m.cnn.output_result_addr, output_size)
             m2 == [m1 EXCEPT !.log = Append(@, <<"logits", m.cnn.output_result_addr,
                                                   num_classes>>)]
             probs == CNN_Softmax(raw, num_classes)
             num_results == IF num_classes < TOP_RESULTS THEN num_classes ELSE TOP_RESULTS
             m3 == [m2 EXCEPT !.result.num_results = num_results,
                              !.result.classifications =
                                  CNN_GetTopK(probs, num_classes, num_results, @)]
         IN  Out(m3, XST_SUCCESS)

\* Variant: a done bit seen in the status word is latched into the handle.
CNN_GetStatus_LatchesDone(m, h, statp) ==
    IF h = NULL \/ statp = NULL THEN Out(m, VOID)
    ELSE LET m1 == CNN_READ_REG(m, CNN_REG_STATUS)
             reg_status == Xil_In32(m, CNN_REG_STATUS)
             m2 == CNN_READ_REG(m1, CNN_REG_PERF_CYCLES)
             m3 == CNN_READ_REG(m2, CNN_REG_PERF_OPS)
             m4 == IF BitAnd(reg_status, CNN_STAT_DONE) # 0
                   THEN SetInferenceDone(m3, 1) ELSE m3
         IN  Out([m4 EXCEPT !.status =
                     [busy |-> IF BitAnd(reg_status, CNN_STAT_BUSY) # 0 THEN 1 ELSE 0,
                      done |-> IF BitAnd(reg_status, CNN_STAT_DONE) # 0 THEN 1 ELSE 0,
                      error_code |-> BitAnd(reg_status, CNN_STAT_ERROR_MASK) \div 16,
                      cycles |-> Xil_In32(m, CNN_REG_PERF_CYCLES),
                      operations |-> Xil_In32(m, CNN_REG_PERF_OPS)]], VOID)

CNN_GetStatus(m, h, statp) ==
    IF h = NULL \/ statp = NULL THEN Out(m, VOID)
    ELSE LET m1 == CNN_READ_REG(m, CNN_REG_STATUS)
             reg_status == Xil_In32(m, CNN_REG_STATUS)
             m2 == CNN_READ_REG(m1, CNN_REG_PERF_CYCLES)
             m3 == CNN_READ_REG(m2, CNN_REG_PERF_OPS)
         IN  Out([m3 EXCEPT !.status =
                     [busy |-> IF BitAnd(reg_status, CNN_STAT_BUSY) # 0 THEN 1 ELSE 0,
                      done |-> IF BitAnd(reg_status, CNN_STAT_DONE) # 0 THEN 1 ELSE 0,
                      error_code |-> BitAnd(reg_status, CNN_STAT_ERROR_MASK) \div 16,
                      cycles |-> Xil_In32(m, CNN_REG_PERF_CYCLES),
                      operations |-> Xil_In32(m, CNN_REG_PERF_OPS)]], VOID)

\* Variant: the stop bit is written and the completion flag is kept.
CNN_Stop_KeepsFlag(m, h) ==
    IF h = NULL THEN Out(m, VOID)
    ELSE Out(CNN_WRITE_REG(m, CNN_REG_CONTROL, CNN_CTRL_STOP), VOID)

CNN_Stop(m, h) ==
    IF h = NULL THEN Out(m, VOID)
    ELSE Out(SetInferenceDone(CNN_WRITE_REG(m, CNN_REG_CONTROL, CNN_CTRL_STOP), 0), VOID)

CNN_EnableInterrupt(m, h, enable) ==
    IF h = NULL THEN Out(m, VOID)
    ELSE IF enable # 0
    THEN Out(CNN_WRITE_REG(m, CNN_REG_IRQ_ENABLE, BitOr(CNN_IRQ_DONE, CNN_IRQ_ERROR)), VOID)
    ELSE Out(CNN_WRITE_REG(m, CNN_REG_IRQ_ENABLE, 0), VOID)

\* Variant: clearing the pending interrupts also clears the completion flag.
CNN_ClearInterrupt_ClearsFlag(m, h) ==
    IF h = NULL THEN Out(m, VOID)
    ELSE LET m1 == CNN_READ_REG(m, CNN_REG_IRQ_STATUS)
             m2 == CNN_WRITE_REG(m1, CNN_REG_IRQ_STATUS, Xil_In32(m, CNN_REG_IRQ_STATUS))
         IN  Out(SetInferenceDone(m2, 0), VOID)

CNN_ClearInterrupt(m, h) ==
    IF h = NULL THEN Out(m, VOID)
    ELSE LET m1 == CNN_READ_REG(m, CNN_REG_IRQ_STATUS)
         IN  Out(CNN_WRITE_REG(m1, CNN_REG_IRQ_STATUS, Xil_In32(m, CNN_REG_IRQ_STATUS)), VOID)

\* Variant: any asserted interrupt bit marks the inference as complete.
CNN_InterruptHandler_AnyBit(m, h) ==
    IF h = NULL THEN Out(m, VOID)
    ELSE LET irq_status == Xil_In32(m, CNN_REG_IRQ_STATUS)
             m1 == CNN_READ_REG(m, CNN_REG_IRQ_STATUS)
             m2 == IF irq_status # 0 THEN SetInferenceDone(m1, 1) ELSE m1
         IN  Out(CNN_WRITE_REG(m2, CNN_REG_IRQ_STATUS, irq_status), VOID)

CNN_InterruptHandler(m, h) ==
    IF h = NULL THEN Out(m, VOID)
    ELSE LET irq_status == Xil_In32(m, CNN_REG_IRQ_STATUS)
             m1 == CNN_READ_REG(m, CNN_REG_IRQ_STATUS)
             m2 == IF BitAnd(irq_status, CNN_IRQ_DONE) # 0
                   THEN SetInferenceDone(m1, 1) ELSE m1
         IN  Out(CNN_WRITE_REG(m2, CNN_REG_IRQ_STATUS, irq_status), VOID)

(* ------------------------------------------------------------------ *)
(* The main control flow: one driver call at a time.                   *)
(* ------------------------------------------------------------------ *)
NoArg == [h |-> NULL, a |-> 0, b |-> 0]
Arg(h, a, b) == [h |-> h, a |-> a, b |-> b]

\* Locals of CNN_WaitForCompletion and what the call has seen so far:
\* slept counts the milliseconds slept.
NewWait(t) ==
    [timeout_ms |-> t, elapsed |-> 0, slept |-> 0, reads |-> 0,
     sawDone |-> FALSE, sawErr |-> FALSE, allBusy |-> TRUE, allIdle |-> TRUE,
     exit |-> "none"]

Commit(m, p, op, a, r) ==
    /\ cnn' = m.cnn
    /\ regs' = m.regs
    /\ hw' = m.hw
    /\ result' = m.result
    /\ status' = m.status
    /\ log' = m.log
    /\ pc' = p
    /\ lastOp' = op
    /\ arg' = a
    /\ ret' = r

\* A call that runs in one step: entered from idle, returns to idle.
Call(o, op, a) ==
    /\ pc = "idle"
    /\ Commit(o.m, "idle", op, a, o.ret)
    /\ w' = NewWait(0)
    /\ UNCHANGED outbuf

Call_Init(h) ==
    /\ pc \in {"uninit", "idle"}
    /\ LET o == CNN_Init(AtEntry, h)
       IN  Commit(o.m, IF h # NULL /\ o.ret = XST_SUCCESS THEN "idle" ELSE pc,
                  "CNN_Init", Arg(h, 0, 0), o.ret)
    /\ w' = NewWait(0)
    /\ UNCHANGED outbuf

Call_Configure(h, cfgp, config) ==
    Call(CNN_Configure(AtEntry, h, cfgp, config), "CNN_Configure", Arg(h, cfgp, config))

Call_Reset(h) == Call(CNN_Reset(AtEntry, h), "CNN_Reset", Arg(h, 0, 0))

Call_LoadWeights(h, weights, size) ==
    Call(CNN_LoadWeights(AtEntry, h, weights, size), "CNN_LoadWeights",
         Arg(h, weights, size))

Call_LoadBiases(h, biases, size) ==
    Call(CNN_LoadBiases(AtEntry, h, biases, size), "CNN_LoadBiases",
         Arg(h, biases, size))

Call_IsComplete(h) == Call(CNN_IsComplete(AtEntry, h), "CNN_IsComplete", Arg(h, 0, 0))

\* The num_classes int16_t values read at output_result_addr: what the
\* accelerator left there, and zero-filled memory behind it.
OutputRegion(buf, n) ==
    [i \in 0..(n - 1) |-> IF i < OutLen THEN buf[i] ELSE 0]

\* float probs[CNN_MAX_CLASSES] in CNN_GetResult and
\* uint8_t selected[CNN_MAX_CLASSES] in CNN_GetTopK are indexed up to
\* num_classes - 1.  Beyond CNN_MAX_CLASSES these accesses leave the arrays
\* and hit the neighbouring stack slots (the selection's own loop state
\* among them): the call may go on as if the arrays were large enough, or
\* repeat or skip entries of the ranking.
ArrayOverrun(o, n, prior) ==
    IF o.ret = XST_SUCCESS /\ n > CNN_MAX_CLASSES
    THEN {o,
          [o EXCEPT !.m.result.classifications[1] = o.m.result.classifications[0]],
          [o EXCEPT !.m.result.classifications[0] = prior.classifications[0]]}
    ELSE {o}

\* prior is what the caller's structure holds when the call is made.
Call_GetResult(h, resp, prior) ==
    \E o \in ArrayOverrun(CNN_GetResult([AtEntry EXCEPT !.result = prior], h, resp,
                                       OutputRegion(outbuf, cnn.config.num_classes)),
                          cnn.config.num_classes, prior) :
        Call(o, "CNN_GetResult", Arg(h, resp, prior))

Call_GetStatus(h, statp) ==
    Call(CNN_GetStatus(AtEntry, h, statp), "CNN_GetStatus", Arg(h, statp, 0))

Call_Stop(h) == Call(CNN_Stop(AtEntry, h), "CNN_Stop", Arg(h, 0, 0))

Call_EnableInterrupt(h, enable) ==
    Call(CNN_EnableInterrupt(AtEntry, h, enable), "CNN_EnableInterrupt",
         Arg(h, enable, 0))

Call_ClearInterrupt(h) ==
    Call(CNN_ClearInterrupt(AtEntry, h), "CNN_ClearInterrupt", Arg(h, 0, 0))

(* ------------------------------------------------------------------ *)
(* CNN_StartInference, statement by statement: the interrupt handler   *)
(* may run between any two of its accesses.                            *)
(* ------------------------------------------------------------------ *)
\* Variant: the busy test looks at the done bit.
Busy_DoneBit(st) == BitAnd(st, CNN_STAT_DONE) # 0

Busy(st)    == BitAnd(st, CNN_STAT_BUSY) # 0
Done(st)    == BitAnd(st, CNN_STAT_DONE) # 0
\* Variant: the error mask selects the low nibble.
ErrBits_LowNibble(st) == BitAnd(st, 15)

ErrBits(st) == BitAnd(st, CNN_STAT_ERROR_MASK)

\* Variant: the input address is written before the busy check.
CNN_StartInference_Check_WriteFirst(h, frame_addr) ==
    /\ pc = "idle"
    /\ w' = NewWait(0)
    /\ UNCHANGED outbuf
    /\ IF h = NULL
       THEN Commit(AtEntry, "idle", "CNN_StartInference", Arg(h, frame_addr, 0),
                   XST_FAILURE)
       ELSE LET m1 == CNN_READ_REG(AtEntry, CNN_REG_STATUS)
                m2 == CNN_WRITE_REG(m1, CNN_REG_INPUT_ADDR, frame_addr)
            IN  IF Busy(Xil_In32(AtEntry, CNN_REG_STATUS))
                THEN Commit(m2, "idle", "CNN_StartInference",
                            Arg(h, frame_addr, 0), XST_FAILURE)
                ELSE Commit(m1, "start_addr", "CNN_StartInference",
                            Arg(h, frame_addr, 0), "pending")

\* lines 177-187: null check, status read, busy rejection
CNN_StartInference_Check(h, frame_addr) ==
    /\ pc = "idle"
    /\ w' = NewWait(0)
    /\ UNCHANGED outbuf
    /\ IF h = NULL
       THEN Commit(AtEntry, "idle", "CNN_StartInference", Arg(h, frame_addr, 0),
                   XST_FAILURE)
       ELSE LET m1 == CNN_READ_REG(AtEntry, CNN_REG_STATUS)
            IN  IF Busy(Xil_In32(AtEntry, CNN_REG_STATUS))
                THEN Commit(m1, "idle", "CNN_StartInference",
                            Arg(h, frame_addr, 0), XST_FAILURE)
                ELSE Commit(m1, "start_addr", "CNN_StartInference",
                            Arg(h, frame_addr, 0), "pending")

\* line 190
CNN_StartInference_Addr ==
    /\ pc = "start_addr"
    /\ Commit(CNN_WRITE_REG(Cur, CNN_REG_INPUT_ADDR, arg.a), "start_flush",
              lastOp, arg, ret)
    /\ UNCHANGED <<w, outbuf>>

\* Variant: the flush covers the handle's default frame region, not the
\* frame passed.
CNN_StartInference_Flush_Region ==
    /\ pc = "start_flush"
    /\ LET frame_size == cnn.config.input_width * cnn.config.input_height
                         * cnn.config.input_channels * 2
       IN  Commit(Xil_DCacheFlushRange(Cur, cnn.input_frame_addr, frame_size),
                  "start_clear", lastOp, arg, ret)
    /\ UNCHANGED <<w, outbuf>>

\* lines 193-195
CNN_StartInference_Flush ==
    /\ pc = "start_flush"
    /\ LET frame_size == cnn.config.input_width * cnn.config.input_height
                         * cnn.config.input_channels * 2
       IN  Commit(Xil_DCacheFlushRange(Cur, arg.a, frame_size), "start_clear",
                  lastOp, arg, ret)
    /\ UNCHANGED <<w, outbuf>>

\* line 198
CNN_StartInference_ClearDone ==
    /\ pc = "start_clear"
    /\ Commit(SetInferenceDone(Cur, 0), "start_go", lastOp, arg, ret)
    /\ UNCHANGED <<w, outbuf>>

\* lines 201-203
CNN_StartInference_Start ==
    /\ pc = "start_go"
    /\ Commit(CNN_WRITE_REG(Cur, CNN_REG_CONTROL, CNN_CTRL_START), "idle",
              lastOp, arg, XST_SUCCESS)
    /\ UNCHANGED <<w, outbuf>>

(* ------------------------------------------------------------------ *)
(* CNN_WaitForCompletion, one status read per step.  Its status reads  *)
(* and sleeps are recorded in w, not logged.                           *)
(* ------------------------------------------------------------------ *)
WaitPcs == {"wait_poll", "wait_recheck"}

\* w after a status read that returned st
WaitSaw(wl, st) ==
    [wl EXCEPT !.reads   = Min(@ + 1, ReadsCap(wl.timeout_ms)),
               !.sawDone = @ \/ Done(st),
               !.sawErr  = @ \/ ErrBits(st) # 0,
               !.allBusy = @ /\ Busy(st) /\ ~Done(st),
               !.allIdle = @ /\ ~Busy(st) /\ ~Done(st) /\ ErrBits(st) = 0]

WaitReturn(o, wl, how) ==
    /\ Commit(o.m, "idle", lastOp, arg, o.ret)
    /\ w' = [wl EXCEPT !.exit = how]

\* Variant: success is returned without recording the completion.
WaitOutcomeDone_NoFlag(m) == Out(m, XST_SUCCESS)

\* lines 221-224 and 232-235: machine and value at the return on done
WaitOutcomeDone(m) == Out(SetInferenceDone(m, 1), XST_SUCCESS)

\* Variant: the error return also marks the inference as over.
WaitOutcomeError_SetsFlag(m) == Out(SetInferenceDone(m, 1), XST_FAILURE)

\* lines 228-230: at the return on a hardware error code
WaitOutcomeError(m) == Out(m, XST_FAILURE)

\* lines 239-241: at the return on timeout
WaitOutcomeTimeout(m) == Out(m, XST_FAILURE)

\* Variant: the timeout fires one poll interval early.
WaitTimeoutOrSleep_Early(m, wl) ==
    IF wl.timeout_ms > 0 /\ wl.elapsed + POLL_INTERVAL >= wl.timeout_ms
    THEN WaitReturn(WaitOutcomeTimeout(m), wl, "timeout")
    ELSE /\ Commit(m, "wait_poll", lastOp, arg, ret)
         /\ w' = [wl EXCEPT !.elapsed = Min(@ + POLL_INTERVAL, ElapsedCap(wl.timeout_ms)),
                            !.slept   = Min(@ + POLL_INTERVAL, ElapsedCap(wl.timeout_ms))]

\* Variant: timeout 0 is not taken as unbounded.
WaitTimeoutOrSleep_ZeroExpires(m, wl) ==
    IF wl.elapsed >= wl.timeout_ms
    THEN WaitReturn(WaitOutcomeTimeout(m), wl, "timeout")
    ELSE /\ Commit(m, "wait_poll", lastOp, arg, ret)
         /\ w' = [wl EXCEPT !.elapsed = Min(@ + POLL_INTERVAL, ElapsedCap(wl.timeout_ms)),
                            !.slept   = Min(@ + POLL_INTERVAL, ElapsedCap(wl.timeout_ms))]

\* Variant: the timeout fires one poll interval late.
WaitTimeoutOrSleep_Late(m, wl) ==
    IF wl.timeout_ms > 0 /\ wl.elapsed > wl.timeout_ms
    THEN WaitReturn(WaitOutcomeTimeout(m), wl, "timeout")
    ELSE /\ Commit(m, "wait_poll", lastOp, arg, ret)
         /\ w' = [wl EXCEPT !.elapsed = Min(@ + POLL_INTERVAL, ElapsedCap(wl.timeout_ms)),
                            !.slept   = Min(@ + POLL_INTERVAL, ElapsedCap(wl.timeout_ms))]

\* lines 238-244: timeout check, then sleep one poll interval
WaitTimeoutOrSleep(m, wl) ==
    IF wl.timeout_ms > 0 /\ wl.elapsed >= wl.timeout_ms
    THEN WaitReturn(WaitOutcomeTimeout(m), wl, "timeout")
    ELSE /\ Commit(m, "wait_poll", lastOp, arg, ret)
         /\ w' = [wl EXCEPT !.elapsed = Min(@ + POLL_INTERVAL, ElapsedCap(wl.timeout_ms)),
                            !.slept   = Min(@ + POLL_INTERVAL, ElapsedCap(wl.timeout_ms))]

\* lines 209-216
CNN_WaitForCompletion_Enter(h, timeout_ms) ==
    /\ pc = "idle"
    /\ UNCHANGED outbuf
    /\ IF h = NULL
       THEN /\ Commit(AtEntry, "idle", "CNN_WaitForCompletion",
                      Arg(h, timeout_ms, 0), XST_FAILURE)
            /\ w' = [NewWait(timeout_ms) EXCEPT !.exit = "null"]
       ELSE /\ Commit(AtEntry, "wait_poll", "CNN_WaitForCompletion",
                      Arg(h, timeout_ms, 0), "pending")
            /\ w' = NewWait(timeout_ms)

\* lines 219-230, then 238-244 when the loop body falls through
CNN_WaitForCompletion_Poll ==
    /\ pc = "wait_poll"
    /\ UNCHANGED outbuf
    /\ LET st == Xil_In32(Cur, CNN_REG_STATUS)
           wl == WaitSaw(w, st)
       IN  IF Done(st) THEN WaitReturn(WaitOutcomeDone(Cur), wl, "done")
           ELSE IF ~Busy(st)
           THEN IF ErrBits(st) # 0
                THEN WaitReturn(WaitOutcomeError(Cur), wl, "error")
                ELSE /\ Commit(Cur, "wait_recheck", lastOp, arg, ret)
                     /\ w' = wl
           ELSE WaitTimeoutOrSleep(Cur, wl)

\* lines 232-235, then 238-244
CNN_WaitForCompletion_Recheck ==
    /\ pc = "wait_recheck"
    /\ UNCHANGED outbuf
    /\ LET st == Xil_In32(Cur, CNN_REG_STATUS)
           wl == WaitSaw(w, st)
       IN  IF Done(st) THEN WaitReturn(WaitOutcomeDone(Cur), wl, "done")
           ELSE WaitTimeoutOrSleep(Cur, wl)

(* ------------------------------------------------------------------ *)
(* Interrupt context and the accelerator's own steps                   *)
(* ------------------------------------------------------------------ *)
IrqAsserted == hw.present /\ BitAnd(hw.irq, regs[CNN_REG_IRQ_ENABLE]) # 0

\* The ISR calls CNN_InterruptHandler while the interrupt line is asserted.
Interrupt ==
    /\ IrqAsserted
    /\ LET o == CNN_InterruptHandler(AtEntry, "cnn")
       IN  /\ cnn' = o.m.cnn
           /\ regs' = o.m.regs
           /\ hw' = o.m.hw
    /\ UNCHANGED <<outbuf, result, pc, lastOp, arg, ret, log, status, w>>

\* The running inference ends: results are in the output region, busy
\* falls and done rises in the same cycle.
HW_Complete ==
    /\ hw.present /\ hw.busy = 1
    /\ hw' = [hw EXCEPT !.busy = 0, !.done = 1,
                        !.irq = BitOr(@, CNN_IRQ_DONE),
                        !.job = "finished"]
    /\ outbuf' = HwOutput(regs)
    /\ UNCHANGED <<cnn, regs, result, pc, lastOp, arg, ret, log, status, w>>

\* The same end seen in two bus-visible steps: busy falls first ...
HW_ClearBusy ==
    /\ hw.present /\ hw.busy = 1
    /\ hw' = [hw EXCEPT !.busy = 0, !.job = "finishing"]
    /\ outbuf' = HwOutput(regs)
    /\ UNCHANGED <<cnn, regs, result, pc, lastOp, arg, ret, log, status, w>>

\* ... and done rises after it.
HW_SetDone ==
    /\ hw.present /\ hw.job = "finishing"
    /\ hw' = [hw EXCEPT !.done = 1,
                        !.irq = BitOr(@, CNN_IRQ_DONE),
                        !.job = "finished"]
    /\ UNCHANGED <<cnn, regs, outbuf, result, pc, lastOp, arg, ret, log, status, w>>

\* The running inference faults with an error code, and halts or goes on.
HW_Fault(code, halts) ==
    /\ hw.present /\ hw.busy = 1 /\ hw.err = 0
    /\ hw' = [hw EXCEPT !.err = code,
                        !.irq = BitOr(@, CNN_IRQ_ERROR),
                        !.busy = IF halts THEN 0 ELSE @,
                        !.job = IF halts THEN "aborted" ELSE @]
    /\ UNCHANGED <<cnn, regs, outbuf, result, pc, lastOp, arg, ret, log, status, w>>

\* A stop request is honoured: best effort, the accelerator may also run on.
HW_Halt ==
    /\ hw.present /\ hw.busy = 1
    /\ BitAnd(regs[CNN_REG_CONTROL], CNN_CTRL_STOP) # 0
    /\ hw' = [hw EXCEPT !.busy = 0, !.job = "aborted"]
    /\ UNCHANGED <<cnn, regs, outbuf, result, pc, lastOp, arg, ret, log, status, w>>

(* ------------------------------------------------------------------ *)
(* Specification                                                       *)
(* ------------------------------------------------------------------ *)
Init ==
    /\ cnn = ZeroHandle
    /\ regs = [r \in WritableRegs |-> 0]
    /\ hw \in {HwIdleState(TRUE), HwIdleState(FALSE)}
    /\ outbuf = ZeroLogits
    /\ result = ZeroResult
    /\ status = ZeroStatus
    /\ pc = "uninit"
    /\ lastOp = "none"
    /\ arg = NoArg
    /\ ret = VOID
    /\ log = <<>>
    /\ w = NewWait(0)

Next ==
    \/ \E h \in Handles : Call_Init(h)
    \/ \E in \in ConfigureInputs : Call_Configure(in[1], in[2], in[3])
    \/ Call_Reset("cnn")
    \/ \E in \in LoadInputs : Call_LoadWeights("cnn", in[1], in[2])
    \/ \E in \in LoadInputs : Call_LoadBiases("cnn", in[1], in[2])
    \/ \E fa \in FrameAddrs : CNN_StartInference_Check("cnn", fa)
    \/ CNN_StartInference_Addr
    \/ CNN_StartInference_Flush
    \/ CNN_StartInference_ClearDone
    \/ CNN_StartInference_Start
    \/ \E t \in Timeouts : CNN_WaitForCompletion_Enter("cnn", t)
    \/ CNN_WaitForCompletion_Poll
    \/ CNN_WaitForCompletion_Recheck
    \/ Call_IsComplete("cnn")
    \/ \E resp \in {"result", NULL}, prior \in ResultInputs :
          Call_GetResult("cnn", resp, prior)
    \/ Call_GetStatus("cnn", "status")
    \/ Call_Stop("cnn")
    \/ \E enable \in {0, 1} : Call_EnableInterrupt("cnn", enable)
    \/ Call_ClearInterrupt("cnn")
    \/ Interrupt
    \/ HW_Complete
    \/ HW_ClearBusy
    \/ HW_SetDone
    \/ \E code \in FaultCodes, halts \in BOOLEAN : HW_Fault(code, halts)
    \/ HW_Halt

Spec == Init /\ [][Next]_vars

\* The main control flow keeps executing: a polling loop is not abandoned.
FairSpec ==
    /\ Spec
    /\ WF_vars(CNN_WaitForCompletion_Poll)
    /\ WF_vars(CNN_WaitForCompletion_Recheck)

(* ------------------------------------------------------------------ *)
(* The post-processing functions called on their own                    *)
(* (cnn_accelerator.h:264-296 exports them).  lastOp is the function,  *)
(* arg.a and arg.b its inputs, ret or result what it yields.           *)
(* ------------------------------------------------------------------ *)
Int16 == INT16_MIN..INT16_MAX

\* A float is a fraction; <<1, 0>> and <<-1, 0>> are the infinities and
\* <<0, 0>> is not a number (every comparison with it is false).
NaN == <<0, 0>>
FloatInputs ==
    {<<n, 1>> : n \in {-1000, -129, -128, -1, 0, 1, 127, 128, 1000}}
    \cup {<<n, Q8_8_SCALE>> : n \in {-32769, -32768, -32767, -257, -255, -1,
                                    1, 255, 257, 32766, 32767, 32768}}
    \cup {<<n, 2 * Q8_8_SCALE>> : n \in {-65537, -65535, -3, -1, 1, 3, 65533, 65535}}
    \cup {<<1, 0>>, <<-1, 0>>, NaN}

\* (int16_t) of a NaN is undefined: what conversion instructions leave.
NaNToFixed == {INT16_MIN, -1, 0, INT16_MAX}

\* Logit arrays of one to MaxLogits whole-numbered Q8.8 values.
MaxLogits == 3
LogitValues == {INT16_MIN, -512, -256, 0, 256, 32512}
SoftmaxInputs ==
    UNION {[0..(n - 1) -> LogitValues] : n \in 1..MaxLogits}

\* Probability arrays of one to MaxProbs values, ties included, and one of
\* CNN_MAX_CLASSES values whose largest is tied between index 3 and the last.
MaxProbs == 4
ProbValues == {<<0, 4>>, <<1, 4>>, <<2, 4>>, <<4, 4>>}
ProbsFull ==
    [i \in 0..(CNN_MAX_CLASSES - 1) |->
        IF i \in {3, CNN_MAX_CLASSES - 1} THEN <<2, 4>>
        ELSE IF i = 50 THEN <<1, 4>> ELSE <<0, 4>>]
TopKInputs ==
    UNION {[0..(n - 1) -> ProbValues] : n \in 1..MaxProbs} \cup {ProbsFull}
\* The results array as the caller passes it to CNN_GetTopK.
PriorResults ==
    [num_results |-> 0,
     classifications |-> [k \in 0..(TOP_RESULTS - 1) |->
                             [class_id |-> 200 + k, confidence |-> <<3, 4>>]]]

\* Number of elements of an array, kept as a function on 0..(n - 1).
Size(a) == Cardinality(DOMAIN a)

PostCall(op, a, b, res) ==
    /\ pc = "call" /\ lastOp = op /\ arg = Arg(NULL, a, b) /\ result = res

PostInit ==
    /\ cnn = ZeroHandle
    /\ regs = [r \in WritableRegs |-> 0]
    /\ hw = HwIdleState(TRUE)
    /\ outbuf = ZeroLogits
    /\ status = ZeroStatus
    /\ ret = VOID
    /\ log = <<>>
    /\ w = NewWait(0)
    /\ \/ \E v \in Int16 : PostCall("CNN_FixedToFloat", v, 0, ZeroResult)
       \/ \E x \in FloatInputs : PostCall("CNN_FloatToFixed", x, 0, ZeroResult)
       \/ \E in \in SoftmaxInputs :
             PostCall("CNN_Softmax", in, Size(in), ZeroResult)
       \/ \E probs \in TopKInputs, top_k \in 0..TOP_RESULTS :
             PostCall("CNN_GetTopK", probs, top_k, PriorResults)

PostReturn(op, a, r, res) ==
    /\ pc' = (IF pc = "call" THEN "return" ELSE "return2")
    /\ lastOp' = op /\ arg' = a /\ ret' = r /\ result' = res
    /\ UNCHANGED <<cnn, regs, hw, outbuf, log, status, w>>

Post_FixedToFloat ==
    /\ pc = "call" /\ lastOp = "CNN_FixedToFloat"
    /\ PostReturn(lastOp, arg, CNN_FixedToFloat(arg.a), result)

\* Called on a float of the caller, or on what CNN_FixedToFloat has just
\* returned (pc is then "return2" and arg.b the Q8.8 value that was decoded).
Post_FloatToFixed ==
    \/ /\ pc = "call" /\ lastOp = "CNN_FloatToFixed"
       /\ \E r \in IF arg.a = NaN THEN NaNToFixed ELSE {CNN_FloatToFixed(arg.a)} :
             PostReturn(lastOp, arg, r, result)
    \/ /\ pc = "return" /\ lastOp = "CNN_FixedToFloat"
       /\ PostReturn("CNN_FloatToFixed", Arg(NULL, ret, arg.a),
                     CNN_FloatToFixed(ret), result)

Post_Softmax ==
    /\ pc = "call" /\ lastOp = "CNN_Softmax"
    /\ PostReturn(lastOp, arg, CNN_Softmax(arg.a, arg.b), result)

Post_GetTopK ==
    /\ pc = "call" /\ lastOp = "CNN_GetTopK"
    /\ PostReturn(lastOp, arg, VOID,
                  [result EXCEPT !.classifications =
                      CNN_GetTopK(arg.a, Size(arg.a), arg.b, @)])

PostNext ==
    \/ Post_FixedToFloat
    \/ Post_FloatToFixed
    \/ Post_Softmax
    \/ Post_GetTopK

PostSpec == PostInit /\ [][PostNext]_vars

(* ------------------------------------------------------------------ *)
(* Properties                                                          *)
(* ------------------------------------------------------------------ *)
StartPcs == {"start_addr", "start_flush", "start_clear", "start_go"}
Returned(op) == pc = "idle" /\ lastOp = op /\ arg.h # NULL
WaitReturned == Returned("CNN_WaitForCompletion")

\* The entries of a log that change something: register writes, cache
\* maintenance, copies and assignments to inference_done.
Effects(l) == {i \in 1..Len(l) : l[i][1] # "rd"}
FlagWrites(l) == {i \in 1..Len(l) : l[i][1] = "done"}

\* C1: CNN_StartInference whose status read shows busy returns XST_FAILURE
\* having done nothing but that read: no register write (so no start bit, no
\* input address), no cache flush, and inference_done as it was.
C1_BusyStartRejected ==
    [][ /\ (/\ pc = "idle" /\ lastOp' = "CNN_StartInference"
             /\ Busy(Xil_In32(Cur, CNN_REG_STATUS))
             /\ CNN_StartInference_Check("cnn", arg'.a))
             => /\ pc' = "idle" /\ ret' = XST_FAILURE
                /\ UNCHANGED <<cnn, regs, hw>>
                /\ log' = <<<<"rd", CNN_REG_STATUS, Xil_In32(Cur, CNN_REG_STATUS)>>>>
        /\ (lastOp' = "CNN_StartInference" /\ arg'.h # NULL /\ log' # <<>>
            /\ Busy(log'[1][3]))
             => (pc' = "idle" /\ ret' = XST_FAILURE /\ Effects(log') = {})
      ]_vars

C1_Witness ==
    /\ Returned("CNN_StartInference") /\ ret = XST_FAILURE
    /\ Len(log) = 1 /\ Busy(log[1][3])
    /\ hw.busy = 1

\* C2: CNN_GetResult with inference_done clear returns XST_FAILURE and does
\* nothing: the caller's result is as passed in, no cache invalidation, no
\* register access, handle unchanged.
C2_PrematureGetResult ==
    [][ (/\ pc = "idle" /\ lastOp' = "CNN_GetResult" /\ cnn.inference_done = 0
         /\ arg'.a = "result"
         /\ Call_GetResult("cnn", "result", arg'.b))
          => /\ ret' = XST_FAILURE
             /\ result' = arg'.b
             /\ log' = <<>>
             /\ UNCHANGED <<cnn, regs, hw, outbuf>>
      ]_vars

C2_Witness ==
    /\ Returned("CNN_GetResult") /\ arg.a = "result" /\ ret = XST_FAILURE
    /\ result = UsedResult /\ log = <<>>
    /\ cnn.inference_done = 0 /\ hw.done = 1

\* C3: CNN_Configure fails for a null handle or config and for every config
\* with width or height outside 1..224, then writing no register and keeping
\* the stored configuration; it succeeds for every config inside 1..224.
InRange(c) == c.input_width \in 1..224 /\ c.input_height \in 1..224

C3_ConfigureValidates ==
    [][ (/\ pc = "idle" /\ lastOp' = "CNN_Configure"
         /\ Call_Configure(arg'.h, arg'.a, arg'.b))
          => IF arg'.h # NULL /\ arg'.a # NULL /\ InRange(arg'.b)
             THEN ret' = XST_SUCCESS
             ELSE /\ ret' = XST_FAILURE
                  /\ log' = <<>>
                  /\ UNCHANGED <<cnn, regs, hw>>
      ]_vars

C3_Witness ==
    /\ pc = "idle" /\ lastOp = "CNN_Configure" /\ ret = XST_FAILURE
    /\ arg.h # NULL /\ arg.a # NULL /\ arg.b.input_height = 225
    /\ cnn.config.input_height = 1 /\ regs[CNN_REG_CONFIG] # 0

\* C4: a wait with timeout T > 0 whose every status read shows busy set and
\* done clear returns XST_FAILURE, not before T one-millisecond sleeps, and
\* never assigns inference_done.
C4_TimeoutNotEarly ==
    (WaitReturned /\ w.timeout_ms > 0 /\ w.allBusy)
    => /\ ret = XST_FAILURE
       /\ w.slept >= w.timeout_ms
       /\ FlagWrites(log) = {}

C4_Witness ==
    /\ WaitReturned /\ w.timeout_ms = MaxTimeout /\ w.allBusy
    /\ w.exit = "timeout" /\ w.slept = MaxTimeout

\* C5: the start bit is never written while the accelerator is busy; the
\* driver is past its busy check only while the accelerator is idle, and a
\* start attempted while busy returns at once (one status read, no sleep,
\* nothing left pending).
C5_SingleInFlight ==
    /\ ~hw.overrun
    /\ pc \in StartPcs => hw.busy = 0
    /\ (Returned("CNN_StartInference") /\ ret = XST_FAILURE) => Len(log) = 1

C5_Witness ==
    /\ Returned("CNN_StartInference") /\ ret = XST_SUCCESS
    /\ hw.busy = 1 /\ hw.job = "running" /\ outbuf = LogitsOut

\* C6: inference_done is set only if the inference started by the latest
\* successful CNN_StartInference has completed.
C6_FlagMeansLatestFinished ==
    cnn.inference_done = 1 => hw.job = "finished"

Observed(o) == <<o.ret, o.m.cnn>>

C10_IdleWaitFails ==
    (pc \in WaitPcs /\ w.allIdle)
      ~> ((WaitReturned /\ ret = XST_FAILURE) \/ ~w.allIdle)

\* C10 (amended): such a wait is never reported as success; with a timeout
\* T > 0 it returns XST_FAILURE after T sleeps; with timeout 0 it does not
\* return while the status stays that way.
C10_IdleWaitTimesOut ==
    /\ [][ (WaitReturned' /\ w'.allIdle)
             => /\ ret' = XST_FAILURE
                /\ w'.timeout_ms > 0
                /\ w'.slept = w'.timeout_ms
         ]_vars
    /\ (pc \in WaitPcs /\ w.allIdle /\ w.timeout_ms > 0)
         ~> ((WaitReturned /\ ret = XST_FAILURE) \/ ~w.allIdle)

C10_Witness ==
    /\ WaitReturned /\ w.allIdle /\ ret = XST_FAILURE
    /\ w.timeout_ms = MaxTimeout /\ w.slept = MaxTimeout
    /\ hw.job = "none"

\* C11: a run of CNN_InterruptHandler reads the interrupt status once,
\* assigns inference_done = 1 exactly when bit 0 of the value read is set,
\* writes the value read back to the interrupt status (so exactly the bits
\* read are cleared), changes no other register or handle field, never
\* clears the flag and returns nothing.
C11_HandlerContract ==
    [][ (IrqAsserted /\ Interrupt)
          => LET v == hw.irq
                 o == CNN_InterruptHandler(AtEntry, "cnn")
             IN  /\ o.ret = VOID
                 /\ o.m.log = IF v % 2 = 1
                              THEN << <<"rd", CNN_REG_IRQ_STATUS, v>>, <<"done", 1, 0>>,
                                      <<"wr", CNN_REG_IRQ_STATUS, v>> >>
                              ELSE << <<"rd", CNN_REG_IRQ_STATUS, v>>,
                                      <<"wr", CNN_REG_IRQ_STATUS, v>> >>
                 /\ cnn' = [cnn EXCEPT !.inference_done = IF v % 2 = 1 THEN 1 ELSE @]
                 /\ cnn'.inference_done >= cnn.inference_done
                 /\ regs' = regs
                 /\ hw' = [hw EXCEPT !.irq = 0]
                 /\ UNCHANGED <<outbuf, result, status, pc, lastOp, arg, ret, log, w>>
      ]_vars

\* After the start of an inference an error interrupt alone was raised and
\* served: the flag is still clear.
C11_Witness ==
    /\ Returned("CNN_StartInference") /\ ret = XST_SUCCESS
    /\ regs[CNN_REG_IRQ_ENABLE] = 3
    /\ hw.err = 9 /\ hw.irq = 0
    /\ cnn.inference_done = 0

\* C12: after a successful CNN_Configure the handle holds the config passed
\* and the registers hold it packed: CONFIG = layer_enable in bits 0-7,
\* activation in bits 8-10, bit 11 iff pooling is avg; INPUT_DIM = height in
\* the high and width in the low 16 bits; the four address registers hold
\* the handle's four addresses.  Each field decodes back to the config's.
C12_ConfigureRegisters ==
    (Returned("CNN_Configure") /\ ret = XST_SUCCESS)
    => LET c == arg.b
           cfg == regs[CNN_REG_CONFIG]
           dim == regs[CNN_REG_INPUT_DIM]
       IN  /\ cnn.config = c
           /\ cfg = c.layer_enable + 256 * c.activation
                    + (IF c.pool_type = 1 THEN 2048 ELSE 0)
           /\ cfg % 256 = c.layer_enable
           /\ (cfg \div 256) % 8 = c.activation
           /\ ((cfg \div 2048) % 2 = 1) <=> (c.pool_type = 1)
           /\ cfg < 4096
           /\ dim = 65536 * c.input_height + c.input_width
           /\ dim \div 65536 = c.input_height
           /\ dim % 65536 = c.input_width
           /\ regs[CNN_REG_WEIGHT_ADDR] = cnn.weight_mem_addr
           /\ regs[CNN_REG_BIAS_ADDR] = cnn.bias_mem_addr
           /\ regs[CNN_REG_INPUT_ADDR] = cnn.input_frame_addr
           /\ regs[CNN_REG_OUTPUT_ADDR] = cnn.output_result_addr

\* A config with swish, avg pooling and a partial layer mask was accepted
\* after an inference had moved the input address register.
C12_Witness ==
    /\ Returned("CNN_Configure") /\ ret = XST_SUCCESS
    /\ arg.b.activation = 6 /\ arg.b.pool_type = 1 /\ arg.b.layer_enable = 15
    /\ regs[CNN_REG_CONFIG] = 3599
    /\ regs[CNN_REG_INPUT_DIM] = 65760
    /\ regs[CNN_REG_INPUT_ADDR] = 536870912
    /\ hw.job = "finished"

\* The ranking CNN_GetResult is to leave in r for n configured classes:
\* min(n, 5) entries, each written over what the caller passed in, with a
\* class index in 0..n-1, no index twice, confidences non-increasing.
Ranked(r, n) ==
    LET k == Min(n, TOP_RESULTS)
        c == r.classifications
    IN  /\ r.num_results = k
        /\ \A j \in 0..(k - 1) :
              /\ c[j].class_id \in 0..(n - 1)
              /\ c[j] # arg.b.classifications[j]
        /\ \A i, j \in 0..(k - 1) :
              /\ (i # j) => c[i].class_id # c[j].class_id
              /\ (i < j) => ~FGreater(c[j].confidence, c[i].confidence)

\* C13: every successful CNN_GetResult yields num_results = min(configured
\* class count, 5) classifications, each with a class index below the class
\* count, all indices distinct, most confident first, every entry written.
C13_ResultRanked ==
    (Returned("CNN_GetResult") /\ ret = XST_SUCCESS)
    => Ranked(result, cnn.config.num_classes)

\* C13 within the arrays' bound: the ranking holds whenever the configured
\* class count is at most CNN_MAX_CLASSES.
C13_RankedWithinBound ==
    (Returned("CNN_GetResult") /\ ret = XST_SUCCESS
     /\ cnn.config.num_classes <= CNN_MAX_CLASSES)
    => Ranked(result, cnn.config.num_classes)

\* A ranking of ten classes written over a result the caller had used before.
C13_Witness ==
    /\ Returned("CNN_GetResult") /\ ret = XST_SUCCESS
    /\ cnn.config.num_classes = 10
    /\ arg.b = UsedResult
    /\ result.num_results = TOP_RESULTS
    /\ result.classifications[0].class_id # result.classifications[1].class_id

\* What a successful CNN_GetResult does besides filling the result: it only
\* invalidates and reads the output region; handle, registers, accelerator
\* and output buffer stay as they were.
GetResultFrame ==
    (/\ pc = "idle" /\ lastOp' = "CNN_GetResult" /\ ret' = XST_SUCCESS
     /\ arg'.h = "cnn" /\ arg'.a = "result"
     /\ Call_GetResult("cnn", "result", arg'.b))
    => /\ UNCHANGED <<cnn, regs, hw, outbuf>>
       /\ log' = << <<"inval", cnn.output_result_addr, 2 * cnn.config.num_classes>>,
                    <<"logits", cnn.output_result_addr, cnn.config.num_classes>> >>

\* A CNN_GetResult called right after a successful one succeeds and reads
\* the same region.
GetResultAgain ==
    (/\ Returned("CNN_GetResult") /\ ret = XST_SUCCESS
     /\ lastOp' = "CNN_GetResult" /\ arg'.h = "cnn" /\ arg'.a = "result"
     /\ Call_GetResult("cnn", "result", arg'.b))
    => /\ ret' = XST_SUCCESS
       /\ log' = log

\* Between a successful CNN_GetResult and the next driver call nothing
\* changes the output buffer or what the next CNN_GetResult depends on.
GetResultDataStable ==
    (/\ Returned("CNN_GetResult") /\ ret = XST_SUCCESS
     /\ UNCHANGED <<pc, lastOp, arg, ret, log>>)
    => /\ outbuf' = outbuf
       /\ cnn'.inference_done # 0
       /\ cnn'.config = cnn.config
       /\ cnn'.output_result_addr = cnn.output_result_addr

\* C14: a successful CNN_GetResult writes no register and leaves the
\* completion flag and every other handle field unchanged, so consecutive
\* CNN_GetResult calls all succeed and read the same output-buffer logits.
C14_GetResultRepeatable ==
    [][GetResultFrame /\ GetResultAgain /\ GetResultDataStable]_vars

\* C14 without the buffer's stability: the call's own effects, and the
\* success of the call that follows it.
C14_GetResultNoTransition ==
    [][GetResultFrame /\ GetResultAgain]_vars

\* A successful CNN_GetResult for a three-class network whose inference
\* has finished: classes 0 and 2 of the output buffer lead its ranking.
C14_Witness ==
    /\ Returned("CNN_GetResult") /\ ret = XST_SUCCESS
    /\ hw.job = "finished" /\ outbuf = LogitsAlt
    /\ cnn.config.num_classes = 3
    /\ result.num_results = 3
    /\ result.classifications[0].class_id = 0
    /\ result.classifications[1].class_id = 2

\* C15: CNN_Reset writes the reset bit to Control, delays, writes 0 to
\* Control, writes all-ones to the interrupt-status register and clears the
\* completion flag, in this order; after it has returned the flag is clear
\* and Control holds 0, whatever the state was before.
C15_ResetSequence ==
    Returned("CNN_Reset")
    => /\ log = << <<"wr", CNN_REG_CONTROL, CNN_CTRL_RESET>>,
                   <<"usleep", 10, 0>>,
                   <<"wr", CNN_REG_CONTROL, 0>>,
                   <<"wr", CNN_REG_IRQ_STATUS, ALL_ONES>>,
                   <<"done", 0, 0>> >>
       /\ cnn.inference_done = 0
       /\ regs[CNN_REG_CONTROL] = 0
       /\ ret = VOID

\* A reset that interrupted the first inference: interrupts were enabled,
\* the accelerator had started and had not written its output yet.
C15_Witness ==
    /\ Returned("CNN_Reset")
    /\ regs[CNN_REG_IRQ_ENABLE] = 3
    /\ hw.cycles = 1200 /\ hw.busy = 0 /\ hw.irq = 0
    /\ outbuf = ZeroLogits
    /\ cnn.inference_done = 0

\* The effects of CNN_Stop: one write of the stop bit to Control and the
\* flag cleared; no read, no other register, no other handle field.
StopEffects ==
    (/\ pc = "idle" /\ lastOp' = "CNN_Stop" /\ arg'.h = "cnn"
     /\ Call_Stop("cnn"))
    => /\ log' = << <<"wr", CNN_REG_CONTROL, CNN_CTRL_STOP>>, <<"done", 0, 0>> >>
       /\ regs' = [regs EXCEPT ![CNN_REG_CONTROL] = CNN_CTRL_STOP]
       /\ cnn' = [cnn EXCEPT !.inference_done = 0]
       /\ ret' = VOID

\* With the flag clear CNN_GetResult fails, whatever the accelerator shows.
FailsWhileFlagClear ==
    (/\ pc = "idle" /\ cnn.inference_done = 0
     /\ lastOp' = "CNN_GetResult" /\ arg'.h = "cnn" /\ arg'.a = "result"
     /\ Call_GetResult("cnn", "result", arg'.b))
    => ret' = XST_FAILURE

\* The flag is raised only by a step taken while the accelerator shows a
\* completion: the done bit in Status or the done bit in the interrupt status.
FlagRaisedOnDone ==
    (cnn.inference_done = 0 /\ cnn'.inference_done # 0)
    => (hw.done = 1 \/ BitAnd(hw.irq, CNN_IRQ_DONE) # 0)

\* C16: CNN_Stop writes exactly the stop bit to Control and clears the
\* completion flag, reading no status and touching no other register; after
\* it has returned CNN_GetResult fails until a completion is observed anew.
C16_StopContract ==
    [][StopEffects /\ FailsWhileFlagClear /\ FlagRaisedOnDone]_vars

\* CNN_GetResult refused after a stop although the accelerator shows done:
\* the completion has not been observed since the stop.
C16_Witness ==
    /\ Returned("CNN_GetResult") /\ ret = XST_FAILURE
    /\ regs[CNN_REG_CONTROL] = CNN_CTRL_STOP
    /\ cnn.inference_done = 0
    /\ hw.done = 1

\* C17: CNN_Init on a non-null handle sets the default fields, issues one
\* reset and then reads the status register once; it fails if and only if
\* that read is 0xFFFFFFFF, without a retry, and on success the completion
\* flag is clear.
C17_InitProbesOnce ==
    (lastOp = "CNN_Init" /\ arg.h # NULL)
    => /\ Len(log) = 7
       /\ SubSeq(log, 1, 6) =
              << <<"done", 0, 0>>,
                 <<"wr", CNN_REG_CONTROL, CNN_CTRL_RESET>>,
                 <<"usleep", 10, 0>>,
                 <<"wr", CNN_REG_CONTROL, 0>>,
                 <<"wr", CNN_REG_IRQ_STATUS, ALL_ONES>>,
                 <<"done", 0, 0>> >>
       /\ log[7][1] = "rd" /\ log[7][2] = CNN_REG_STATUS
       /\ (ret = XST_FAILURE) <=> (log[7][3] = ALL_ONES)
       /\ ret \in {XST_SUCCESS, XST_FAILURE}
       /\ (ret = XST_SUCCESS) => (cnn.inference_done = 0 /\ pc = "idle")
       /\ cnn = [config |-> [input_width |-> 128, input_height |-> 128,
                             input_channels |-> 3, num_classes |-> 10,
                             layer_enable |-> 255, activation |-> CNN_ACT_RELU,
                             pool_type |-> CNN_POOL_MAX],
                 weight_mem_addr |-> WEIGHT_MEM_ADDR,
                 bias_mem_addr |-> BIAS_MEM_ADDR,
                 input_frame_addr |-> INPUT_FRAME_ADDR,
                 output_result_addr |-> OUTPUT_RESULT_ADDR,
                 inference_done |-> 0]

\* Init on an accelerator that is not there: the one status read is
\* all-ones and the call fails.
C17_Witness ==
    /\ lastOp = "CNN_Init" /\ arg.h # NULL
    /\ ret = XST_FAILURE
    /\ ~hw.present
    /\ log[7] = <<"rd", CNN_REG_STATUS, ALL_ONES>>
    /\ pc = "uninit"

\* What a load of size bytes from data into the region at addr, announced
\* in register reg, does: nothing but a failure for a null pointer or a zero
\* length; else copy, flush of that range, write of that register, in this
\* order.  The handle, the Control register and the accelerator stay.
LoadEffects(data, size, addr, reg) ==
    /\ UNCHANGED <<cnn, hw, outbuf>>
    /\ IF data = NULL \/ size = 0
       THEN /\ ret' = XST_FAILURE
            /\ log' = <<>>
            /\ regs' = regs
       ELSE /\ ret' = XST_SUCCESS
            /\ log' = << <<"memcpy", addr, size>>,
                         <<"flush", addr, size>>,
                         <<"wr", reg, addr>> >>
            /\ regs' = [regs EXCEPT ![reg] = addr]

\* C18: CNN_LoadWeights and CNN_LoadBiases reject a null data pointer or a
\* zero length with no copy, flush or register write; on success each
\* copies into its region, flushes exactly that range and then writes its
\* own address register only, leaving the completion flag, the stored
\* config and the Control register, every time it is called.
C18_LoadSequence ==
    [][ /\ (/\ pc = "idle" /\ lastOp' = "CNN_LoadWeights" /\ arg'.h = "cnn"
            /\ Call_LoadWeights("cnn", arg'.a, arg'.b))
           => LoadEffects(arg'.a, arg'.b, cnn.weight_mem_addr, CNN_REG_WEIGHT_ADDR)
        /\ (/\ pc = "idle" /\ lastOp' = "CNN_LoadBiases" /\ arg'.h = "cnn"
            /\ Call_LoadBiases("cnn", arg'.a, arg'.b))
           => LoadEffects(arg'.a, arg'.b, cnn.bias_mem_addr, CNN_REG_BIAS_ADDR)
      ]_vars

\* Biases loaded after a completion was observed, on a handle that was
\* never configured: the flag stays set and the weights' register is 0.
C18_Witness ==
    /\ Returned("CNN_LoadBiases") /\ ret = XST_SUCCESS
    /\ log = << <<"memcpy", BIAS_MEM_ADDR, 32>>,
                <<"flush", BIAS_MEM_ADDR, 32>>,
                <<"wr", CNN_REG_BIAS_ADDR, BIAS_MEM_ADDR>> >>
    /\ regs[CNN_REG_BIAS_ADDR] = BIAS_MEM_ADDR
    /\ regs[CNN_REG_WEIGHT_ADDR] = 0
    /\ cnn.inference_done = 1

\* The status structure that the word sw of the status register and the
\* two performance counters decode to.
Snapshot(sw, cyc, ops) ==
    [busy |-> sw % 2, done |-> (sw \div 2) % 2, error_code |-> (sw \div 16) % 16,
     cycles |-> cyc, operations |-> ops]

\* C19: CNN_GetStatus is a read-only snapshot from any state: three reads
\* (Status, PerfCycles, PerfOps) and no write; the handle, with its
\* completion flag, the registers and the accelerator stay as they were
\* even when the done bit is read; the structure returned is busy = bit 0,
\* done = bit 1, error_code = bits 4-7 (in 0..15) of the status word just
\* read, cycles and operations the two counters just read.
C19_GetStatusSnapshot ==
    [][ (/\ pc = "idle" /\ lastOp' = "CNN_GetStatus" /\ arg'.h = "cnn"
         /\ Call_GetStatus("cnn", "status"))
        => /\ UNCHANGED <<cnn, regs, hw, outbuf>>
           /\ log' = << <<"rd", CNN_REG_STATUS, StatusWord(hw)>>,
                        <<"rd", CNN_REG_PERF_CYCLES, hw.cycles>>,
                        <<"rd", CNN_REG_PERF_OPS, hw.operations>> >>
           /\ status' = Snapshot(StatusWord(hw), hw.cycles, hw.operations)
           /\ status'.error_code \in 0..15
           /\ ret' = VOID
      ]_vars

\* A status read that sees the done bit and an error code while the
\* handle's completion flag is clear.
C19_Witness ==
    /\ Returned("CNN_GetStatus")
    /\ status.done = 1 /\ status.busy = 0 /\ status.error_code > 0
    /\ status.cycles = 1200 /\ status.operations = 3400
    /\ cnn.inference_done = 0
    /\ Len(log) = 3

\* C20: in every reachable state the class count stored in the handle is
\* at most CNN_MAX_CLASSES, so that CNN_GetResult stays within its
\* probability and selection arrays.
C20_ClassCountBounded ==
    cnn.config.num_classes <= CNN_MAX_CLASSES

\* CNN_Configure has accepted and stored a class count above the bound.
C20_Witness ==
    /\ Returned("CNN_Configure") /\ ret = XST_SUCCESS
    /\ cnn.config.num_classes = CNN_MAX_CLASSES + 1
    /\ arg.b.num_classes = cnn.config.num_classes

(* ------------------------------------------------------------------ *)
(* Post-processing functions (PostSpec)                                *)
(* ------------------------------------------------------------------ *)
PostReturned(op) == pc = "return" /\ lastOp = op

\* Entry j of out is the pick of round j on probs: an index no earlier
\* round took, of the largest probability among those, the lowest such
\* index, with that probability.
RoundPick(probs, out, j) ==
    LET c       == out[j].class_id
        earlier == {out[i].class_id : i \in 0..(j - 1)}
        left    == DOMAIN probs \ earlier
    IN  /\ c \in left
        /\ out[j].confidence = probs[c]
        /\ \A i \in left : /\ ~FGreater(probs[i], probs[c])
                           /\ i < c => FGreater(probs[c], probs[i])

\* C21: CNN_GetTopK(probs[N], k), N within CNN_MAX_CLASSES, selects
\* repeatedly: entry j < min(k, N) is the not yet selected index of the
\* largest probability, the lowest index on a tie, with that probability
\* (so no index is taken twice and the confidences do not increase); when
\* k exceeds N the entries N..k-1 stay as the caller passed them.
C21_TopKSelection ==
    PostReturned("CNN_GetTopK") =>
        LET probs  == arg.a
            out    == result.classifications
            rounds == Min(arg.b, Size(probs))
        IN  /\ \A j \in 0..(rounds - 1) : RoundPick(probs, out, j)
            /\ \A j \in 1..(rounds - 1) :
                   ~FGreater(out[j].confidence, out[j - 1].confidence)
            /\ \A j \in rounds..(TOP_RESULTS - 1) :
                   out[j] = PriorResults.classifications[j]
            /\ result.num_results = PriorResults.num_results

\* Five results asked of two tied classes: two written, index 0 first.
C21_Witness ==
    /\ PostReturned("CNN_GetTopK")
    /\ Size(arg.a) = 2 /\ arg.b = TOP_RESULTS
    /\ arg.a[0] = arg.a[1] /\ arg.a[0] = <<2, 4>>
    /\ result.classifications[0].class_id = 0
    /\ result.classifications[1].class_id = 1
    /\ result.classifications[2] = PriorResults.classifications[2]

\* C21 at the arrays' bound: the tie of index 3 with the last of
\* CNN_MAX_CLASSES classes is ranked 3, last, then the runner-up.
C21_FullArrayRanked ==
    (PostReturned("CNN_GetTopK") /\ arg.a = ProbsFull /\ arg.b >= 3)
    => /\ result.classifications[0].class_id = 3
       /\ result.classifications[1].class_id = CNN_MAX_CLASSES - 1
       /\ result.classifications[2].class_id = 50

\* C22: for every 16-bit signed Q8.8 value v, decoding it and encoding
\* the float again gives v: CNN_FloatToFixed(CNN_FixedToFloat(v)) = v.
C22_RoundTrip ==
    (pc = "return2" /\ lastOp = "CNN_FloatToFixed")
    => /\ arg.b \in Int16
       /\ Num(arg.a) * Q8_8_SCALE = arg.b * Den(arg.a)
       /\ ret = arg.b

\* The most negative value, decoded to -128.0 and encoded again.
C22_Witness ==
    /\ pc = "return2" /\ lastOp = "CNN_FloatToFixed"
    /\ arg.b = INT16_MIN
    /\ Num(arg.a) = -128 * Den(arg.a)
    /\ ret = INT16_MIN

\* r is n/d truncated toward zero (d > 0).
IsTruncation(r, n, d) ==
    IF n >= 0 THEN r >= 0 /\ r * d <= n /\ n < (r + 1) * d
    ELSE r <= 0 /\ r * d >= n /\ n > (r - 1) * d

\* C23: CNN_FloatToFixed saturates: an input x with x*256 above 32767
\* gives 32767, one with x*256 below -32768 gives -32768 (so 1000.0 and
\* -1000.0), an input in between gives x*256 truncated toward zero; the
\* result is a 16-bit value of the sign of x, never a wrapped one.
C23_FloatToFixedSaturates ==
    (PostReturned("CNN_FloatToFixed") /\ arg.a # NaN) =>
        LET scaled == Num(arg.a) * Q8_8_SCALE
            d      == Den(arg.a)
        IN  /\ scaled > INT16_MAX * d => ret = INT16_MAX
            /\ scaled < INT16_MIN * d => ret = INT16_MIN
            /\ (scaled <= INT16_MAX * d /\ scaled >= INT16_MIN * d)
                   => IsTruncation(ret, scaled, d)
            /\ ret \in Int16
            /\ scaled > 0 => ret >= 0
            /\ scaled < 0 => ret <= 0
            /\ arg.a = <<1000, 1>> => ret = 32767
            /\ arg.a = <<-1000, 1>> => ret = -32768

\* 32767.5 / 256, just above the range, has been clamped.
C23_Witness ==
    /\ PostReturned("CNN_FloatToFixed")
    /\ arg.a = <<65535, 2 * Q8_8_SCALE>>
    /\ ret = INT16_MAX

\* Sum of the numerators of out[0..n-1], fractions over one denominator.
RECURSIVE NumSum(_, _)
NumSum(out, n) == IF n = 0 THEN 0 ELSE NumSum(out, n - 1) + Num(out[n - 1])

\* 1e-5 as a fraction.
Tolerance == <<1, 100000>>

FrameBytes(c) == c.input_width * c.input_height * c.input_channels * 2

\* C25: cache discipline at both hand-offs.  A successful
\* CNN_StartInference has, after its status read, written the frame
\* address to InputAddr, flushed width*height*channels*2 bytes at that
\* address, cleared the completion flag and written the start bit, in
\* this order and the start bit last; a successful CNN_GetResult has
\* invalidated classCount*2 bytes at the output address before it read
\* the logits.
C25_CacheDiscipline ==
    /\ (Returned("CNN_StartInference") /\ ret = XST_SUCCESS)
       => /\ Len(log) = 5
          /\ log[1][1] = "rd" /\ log[1][2] = CNN_REG_STATUS /\ ~Busy(log[1][3])
          /\ SubSeq(log, 2, 5) =
                 << <<"wr", CNN_REG_INPUT_ADDR, arg.a>>,
                    <<"flush", arg.a, FrameBytes(cnn.config)>>,
                    <<"done", 0, 0>>,
                    <<"wr", CNN_REG_CONTROL, CNN_CTRL_START>> >>
    /\ (Returned("CNN_GetResult") /\ ret = XST_SUCCESS)
       => log = << <<"inval", cnn.output_result_addr, cnn.config.num_classes * 2>>,
                   <<"logits", cnn.output_result_addr, cnn.config.num_classes>> >>

\* An inference started on a frame outside the default region with a
\* 1 x 224 configuration: the flush is of that frame and that extent.
C25_Witness ==
    /\ Returned("CNN_StartInference") /\ ret = XST_SUCCESS
    /\ cnn.config.input_width = 1 /\ cnn.config.input_height = 224
    /\ arg.a # cnn.input_frame_addr
    /\ log[3] = <<"flush", arg.a, 224 * cnn.config.input_channels * 2>>
    /\ log[5] = <<"wr", CNN_REG_CONTROL, CNN_CTRL_START>>

\* The loop's first status read of an iteration shows neither busy nor done.
PollSeesIdle ==
    /\ pc = "wait_poll" /\ CNN_WaitForCompletion_Poll
    /\ ~Busy(Xil_In32(Cur, CNN_REG_STATUS))
    /\ ~Done(Xil_In32(Cur, CNN_REG_STATUS))

\* C26: in a polled wait a status read that shows busy clear and done
\* clear is always followed by a second status read before the wait
\* decides, error-code bits in the first read or not.
C26_RecheckBeforeDeciding ==
    [][PollSeesIdle => pc' = "wait_recheck"]_vars

\* C26 where the first read has no error-code bits: the second read is
\* made, and if it shows done the wait returns success with the flag set.
C26_RecheckWithoutError ==
    [][ /\ (PollSeesIdle /\ ErrBits(Xil_In32(Cur, CNN_REG_STATUS)) = 0)
           => pc' = "wait_recheck"
        /\ (/\ pc = "wait_recheck" /\ CNN_WaitForCompletion_Recheck
            /\ Done(Xil_In32(Cur, CNN_REG_STATUS)))
           => /\ pc' = "idle" /\ ret' = XST_SUCCESS
              /\ cnn'.inference_done = 1
      ]_vars

\* A wait has returned failure on its first status read, which showed
\* error-code bits with busy and done clear; no second read was made.
C26_Witness ==
    /\ WaitReturned /\ ret = XST_FAILURE
    /\ w.exit = "error" /\ w.sawErr /\ ~w.sawDone
    /\ w.slept = 0

\* C27: a successful CNN_Configure leaves the driver configured, not done:
\* a CNN_GetResult that is the next call after it fails.
C27_ConfigureInvalidatesResult ==
    [][ (/\ Returned("CNN_Configure") /\ ret = XST_SUCCESS
         /\ lastOp' = "CNN_GetResult" /\ arg'.h = "cnn" /\ arg'.a = "result")
        => ret' = XST_FAILURE ]_vars

\* The output of the inference that ran before any configuration was
\* written has been ranked with the three classes configured after it.
C27_Witness ==
    /\ Returned("CNN_GetResult") /\ ret = XST_SUCCESS
    /\ hw.job = "finished" /\ outbuf = LogitsOut
    /\ regs[CNN_REG_CONFIG] # 0
    /\ cnn.config.num_classes = 3
    /\ result.num_results = 3

\* The calls that never assign the completion flag.
FlagKeepers ==
    {"CNN_Configure", "CNN_LoadWeights", "CNN_LoadBiases", "CNN_GetResult",
     "CNN_GetStatus", "CNN_EnableInterrupt", "CNN_ClearInterrupt"}

FlagSet     == cnn.inference_done = 0 /\ cnn'.inference_done = 1
FlagCleared == cnn.inference_done = 1 /\ cnn'.inference_done = 0

\* The steps that may set the flag, each on reading done.
FlagSetter ==
    \/ /\ CNN_WaitForCompletion_Poll \/ CNN_WaitForCompletion_Recheck
       /\ Done(Xil_In32(Cur, CNN_REG_STATUS))
       /\ ret' = XST_SUCCESS
    \/ /\ Call_IsComplete("cnn")
       /\ Done(Xil_In32(Cur, CNN_REG_STATUS))
    \/ /\ Interrupt
       /\ BitAnd(Xil_In32(Cur, CNN_REG_IRQ_STATUS), CNN_IRQ_DONE) # 0

\* The steps that may clear it.
FlagClearer ==
    \/ \E h \in Handles : Call_Init(h)
    \/ Call_Reset("cnn")
    \/ Call_Stop("cnn")
    \/ CNN_StartInference_ClearDone

\* The call that has returned made no assignment to the flag.
NoFlagWrite == \A i \in 1..Len(log) : log[i][1] # "done"

\* C28: the completion flag is set only by CNN_WaitForCompletion and
\* CNN_IsComplete on reading done in the status register and by
\* CNN_InterruptHandler on reading done in the interrupt status; it is
\* cleared only by CNN_Init, CNN_Reset, CNN_Stop and a CNN_StartInference
\* that succeeds; the other calls and every rejected call do not assign
\* it; and once it is set CNN_IsComplete returns 1 without a register read.
C28_FlagWriters ==
    [][ /\ FlagSet => FlagSetter
        /\ FlagCleared => FlagClearer
        /\ (pc' = "idle" /\ lastOp' \in FlagKeepers)
               => (NoFlagWrite' /\ (Interrupt \/ cnn'.inference_done = cnn.inference_done))
        /\ (pc' = "idle" /\ ret' = XST_FAILURE /\ lastOp' # "CNN_Init") => NoFlagWrite'
        /\ (pc' = "idle" /\ lastOp' = "CNN_IsComplete" /\ arg'.h = NULL) => NoFlagWrite'
        /\ (cnn.inference_done = 1 /\ Call_IsComplete("cnn"))
               => (ret' = "1" /\ log' = <<>> /\ cnn' = cnn)
      ]_vars

\* CNN_IsComplete called with the flag set and the done bit gone from the
\* status register (a new inference is running): 1, and nothing read.
C28_Witness ==
    /\ Returned("CNN_IsComplete") /\ ret = "1" /\ log = <<>>
    /\ cnn.inference_done = 1
    /\ hw.done = 0 /\ hw.busy = 1

\* A step of CNN_WaitForCompletion: its entry or one of its status reads.
WaitStep ==
    \/ pc = "idle" /\ pc' = "wait_poll"
    \/ pc \in WaitPcs /\ (CNN_WaitForCompletion_Poll \/ CNN_WaitForCompletion_Recheck)

\* The step writes no register and does no cache maintenance, and unless
\* it returns success it leaves the handle, with the flag, as it was.
WaitStepObserves ==
    /\ UNCHANGED <<regs, hw, outbuf>>
    /\ \A i \in 1..Len(log') : log'[i][1] = "done"
    /\ ret' # XST_SUCCESS => cnn' = cnn

\* With a positive timeout the sleeps and status reads stay within bounds.
WaitBounded ==
    (lastOp = "CNN_WaitForCompletion" /\ w.timeout_ms > 0)
    => /\ w.slept <= w.timeout_ms * POLL_INTERVAL
       /\ w.reads <= 2 * (w.timeout_ms + 1)

\* C29: CNN_WaitForCompletion only observes, and waits boundedly: it
\* writes no register, a wait that fails leaves the completion flag as
\* it was, and with a timeout T > 0 it returns, whatever the status
\* register shows, after at most T sleep intervals (T + 1 iterations) and
\* at most 2 * (T + 1) status reads.
C29_WaitObservesBounded ==
    /\ [][WaitStep => WaitStepObserves]_vars
    /\ []WaitBounded
    /\ (pc \in WaitPcs /\ w.timeout_ms > 0) ~> (pc = "idle")

\* A wait of MaxTimeout on an accelerator that stays idle: timeout after
\* MaxTimeout sleeps, two status reads in each of the iterations.
C29_Witness ==
    /\ WaitReturned /\ ret = XST_FAILURE /\ w.exit = "timeout"
    /\ w.timeout_ms = MaxTimeout
    /\ w.slept = MaxTimeout
    /\ w.reads = 2 * (MaxTimeout + 1)
    /\ log = <<>>

====
